---- MODULE Spec2Model ----
(***************************************************************************)
(* A model of docopt (src/docopt.py): the option-descriptor table, the     *)
(* argv lexer, the usage parser, the pattern normalisation, the matcher    *)
(* and the result assembly.                                                *)
(*                                                                         *)
(* Representation.  Python strings are TLA+ strings.  A Python value       *)
(* (None, False, True, a str, a list of str) is a tagged record, so that   *)
(* 'True' and True, or None and '', stay different.  A pattern node or a   *)
(* leaf is one record shape for all classes; "type" is the class.  None    *)
(* as a name (Argument.name, Option.short, Option.long) is the empty       *)
(* string: the code never builds an empty name (a token of split() is not  *)
(* empty, and option() sets short/long only from tokens starting with '-').*)
(* The Argument objects that Argument.match creates with a list value are  *)
(* the only objects mutated in place after creation (value += [...]), and  *)
(* shallow copies of `collected` share them: they live in `heap`, and the  *)
(* leaf's "ref" is the object's address (0: the value is in the record).   *)
(*                                                                         *)
(* Specifications.  Spec is a run of docopt(doc, argv), one step for each  *)
(* statement of docopt() and one for each token parse_args lexes.  SpecLex *)
(* is parse_args alone on a fixed descriptor table.  SpecParse is the      *)
(* parsing of a usage built from bracket tokens.  SpecMatch applies        *)
(* pattern nodes to a list of leaves, call after call, the loop of         *)
(* OneOrMore.match one iteration at a time.                                *)
(***************************************************************************)
EXTENDS Naturals, Sequences, FiniteSets, TLC

\* ---------------------------------------------------------------- values

None == [t |-> "None", s |-> "", l |-> <<>>]
False == [t |-> "False", s |-> "", l |-> <<>>]
True == [t |-> "True", s |-> "", l |-> <<>>]
Str(s) == [t |-> "str", s |-> s, l |-> <<>>]
List(l) == [t |-> "list", s |-> "", l |-> l]

\* Python truthiness of a value: None, False, '' and [] are falsy.
truthy(v) ==
    CASE v.t = "None" -> FALSE
      [] v.t = "False" -> FALSE
      [] v.t = "True" -> TRUE
      [] v.t = "str" -> v.s # ""
      [] OTHER -> v.l # <<>>

\* ---------------------------------------------------------------- nodes

Node(type, name, short, long, argcount, value, children) ==
    [type |-> type, name |-> name, short |-> short, long |-> long,
     argcount |-> argcount, value |-> value, ref |-> 0, children |-> children]

Argument(name, value) == Node("Argument", name, "", "", 0, value, <<>>)
Command(name, value) == Node("Command", name, "", "", 0, value, <<>>)
Option(short, long, argcount, value) ==
    Node("Option", "", short, long, argcount, value, <<>>)
AnyOptions == Node("AnyOptions", "", "", "", 0, None, <<>>)
Required(children) == Node("Required", "", "", "", 0, None, children)
Optional(children) == Node("Optional", "", "", "", 0, None, children)
OneOrMore(children) == Node("OneOrMore", "", "", "", 0, None, children)
Either(children) == Node("Either", "", "", "", 0, None, children)

\* hasattr(p, 'children'): the leaf classes never call Pattern.__init__.
has_children(p) == p.type \notin {"Argument", "Command", "Option"}

\* Option.name: long or short.
option_name(o) == IF o.long # "" THEN o.long ELSE o.short

\* a.name of any leaf, as docopt() reads it when it builds the Dict.
leaf_name(a) == IF a.type = "Option" THEN option_name(a) ELSE a.name

\* ---------------------------------------------------------------- errors

NoExc == [type |-> "", msg |-> ""]
DocoptError(msg) == [type |-> "DocoptError", msg |-> msg]
DocoptExit(msg) == [type |-> "DocoptExit", msg |-> msg]
AssertionError == [type |-> "AssertionError", msg |-> ""]

\* ---------------------------------------------------------------- strings

Char(s, i) == SubSeq(s, i, i)
From(s, i) == SubSeq(s, i, Len(s))
startswith(s, p) == Len(p) <= Len(s) /\ SubSeq(s, 1, Len(p)) = p
endswith(s, p) == Len(p) <= Len(s) /\ SubSeq(s, Len(s) - Len(p) + 1, Len(s)) = p

\* The least element of a non-empty set of numbers.
Min(S) == CHOOSE x \in S : \A y \in S : x <= y
Max(S) == CHOOSE x \in S : \A y \in S : x >= y

\* s.lstrip(ch): every leading ch removed.
lstrip(s, ch) ==
    LET other == {i \in 1..Len(s) : Char(s, i) # ch}
    IN  IF other = {} THEN "" ELSE From(s, Min(other))

\* The least i >= from with s[i..] starting with sub, or 0 (str.find, 1-based).
find(s, sub, from) ==
    LET at == {i \in from..(Len(s) + 1 - Len(sub)) : SubSeq(s, i, i + Len(sub) - 1) = sub}
    IN  IF at = {} THEN 0 ELSE Min(at)

RECURSIVE concat(_, _, _)
\* f[lo] \o ... \o f[hi] for a function f to strings ('' when hi < lo).
concat(f, lo, hi) ==
    IF hi < lo THEN ""
    ELSE IF lo = hi THEN f[lo]
    ELSE LET mid == (lo + hi) \div 2 IN concat(f, lo, mid) \o concat(f, mid + 1, hi)

RECURSIVE join(_, _)
\* sep.join(seq)
join(seq, sep) ==
    IF seq = <<>> THEN ""
    ELSE IF Len(seq) = 1 THEN seq[1]
    ELSE seq[1] \o sep \o join(Tail(seq), sep)

RECURSIVE decimal(_)
\* '%d' % n
decimal(n) ==
    IF n < 10 THEN Char("0123456789", n + 1)
    ELSE decimal(n \div 10) \o Char("0123456789", (n % 10) + 1)

\* str.isspace() of one character, which str.split, str.strip and \s of re go
\* by: space, \n, \t, \r, \f, and (written as the characters themselves) the
\* vertical tab U+000B, the separators U+001C to U+001F, U+0085 and U+00A0.
IsSpace(c) == c \in {" ", "\n", "\t", "\r", "\f", "", "", "", "", "", "", " "}

\* str.split(): the maximal runs of non-whitespace characters, in order.
split(s) ==
    LET starts == {i \in 1..Len(s) :
                      ~IsSpace(Char(s, i)) /\ (i = 1 \/ IsSpace(Char(s, i - 1)))}
        start(k) == CHOOSE i \in starts : Cardinality({j \in starts : j < i}) = k - 1
        end(i) == Min({j \in i..Len(s) : j = Len(s) \/ IsSpace(Char(s, j + 1))})
    IN  [k \in 1..Cardinality(starts) |-> SubSeq(s, start(k), end(start(k)))]

\* str.strip()
strip(s) ==
    LET inked == {i \in 1..Len(s) : ~IsSpace(Char(s, i))}
    IN  IF inked = {} THEN "" ELSE SubSeq(s, Min(inked), Max(inked))

\* ---------------------------------------------------------------- TokenStream

\* TokenStream.move(): (token, rest); the stream is a sequence of strings and
\* current() is None exactly when it is empty.
current_is_None(tokens) == tokens = <<>>
current(tokens) == tokens[1]
moved(tokens) == Tail(tokens)

\* ---------------------------------------------------------------- option lexing

\* A value no call returns: the `opt` of a call that raised.
NoNode == Node("", "", "", "", 0, None, <<>>)

\* The outcome of parse_long: the exception raised (or NoExc), the option
\* returned, the token stream after the call and the descriptor list after it.
LongResult(exc, opt, tokens, options) ==
    [exc |-> exc, opt |-> opt, tokens |-> tokens, options |-> options]

\* long_matches with the whole name required instead of a prefix.
long_matches_exact(o, raw) == o.long # "" /\ lstrip(o.long, "-") = raw

\* `o.long and o.long.lstrip('-').startswith(raw)`
long_matches(o, raw) == o.long # "" /\ startswith(lstrip(o.long, "-"), raw)

\* `value or True`
value_or_True(value) == IF truthy(value) THEN value ELSE True

\* The exception of the given message: DocoptError when lexing the usage,
\* DocoptExit when lexing argv.
raise(is_pattern, pattern_msg, user_msg) ==
    IF is_pattern THEN DocoptError(pattern_msg) ELSE DocoptExit(user_msg)

parse_long(raw, options, tokens, is_pattern) ==
    LET i == find(raw, "=", 1)
        name == IF i > 0 THEN SubSeq(raw, 1, i - 1) ELSE raw
        value == IF i > 0 THEN Str(From(raw, i + 1)) ELSE None
        opt == SelectSeq(options, LAMBDA o : long_matches(o, name))
        cands == join([k \in 1..Len(opt) |-> "--" \o opt[k].long], ", ")
        fail(pattern_msg, user_msg) ==
            LongResult(raise(is_pattern, pattern_msg, user_msg), NoNode, tokens, options)
    IN  IF Len(opt) < 1 THEN
            fail("--" \o name \o " in \"usage\" should be mentioned in option-description",
                 "--" \o name \o " is not recognized")
        ELSE IF Len(opt) > 1 THEN
            fail("--" \o name \o " in \"usage\" is not a unique prefix: " \o cands \o "?",
                 "--" \o name \o " is not a unique prefix: " \o cands \o "?")
        ELSE LET o == opt[1] IN
            IF o.argcount = 1 THEN
                IF value = None THEN
                    IF current_is_None(tokens) THEN
                        fail("--" \o option_name(o) \o " in \"usage\" requires argument",
                             "--" \o option_name(o) \o " requires argument")
                    ELSE LongResult(NoExc,
                                    [o EXCEPT !.value = value_or_True(Str(current(tokens)))],
                                    moved(tokens), options)
                ELSE LongResult(NoExc, [o EXCEPT !.value = value_or_True(value)],
                                tokens, options)
            ELSE IF value # None THEN
                fail("--" \o option_name(o) \o " in \"usage\" must not have an argument",
                     "--" \o option_name(o) \o " must not have an argument")
            ELSE LongResult(NoExc, [o EXCEPT !.value = value_or_True(value)],
                            tokens, options)

\* The outcome of parse_shorts: as LongResult, with the list of options parsed.
ShortsResult(exc, parsed, tokens, options) ==
    [exc |-> exc, parsed |-> parsed, tokens |-> tokens, options |-> options]

\* short_matches without the lstrip('-').
short_matches_unstripped(o, ch) == o.short # "" /\ startswith(o.short, ch)

\* `o.short and o.short.lstrip('-').startswith(raw[0])`
short_matches(o, ch) == o.short # "" /\ startswith(lstrip(o.short, "-"), ch)

RECURSIVE parse_shorts_loop(_, _, _, _, _)
\* The `while raw != ''` loop of parse_shorts, `parsed` being the options so far.
parse_shorts_loop(raw, options, tokens, is_pattern, parsed) ==
    IF raw = "" THEN ShortsResult(NoExc, parsed, tokens, options)
    ELSE
    LET ch == Char(raw, 1)
        opt == SelectSeq(options, LAMBDA o : short_matches(o, ch))
        fail(exc) == ShortsResult(exc, <<>>, tokens, options)
    IN  IF Len(opt) > 1 THEN
            fail(DocoptError("-" \o ch \o " is specified ambiguously "
                             \o decimal(Len(opt)) \o " times"))
        ELSE IF Len(opt) < 1 THEN
            fail(raise(is_pattern,
                       "-" \o ch \o " in \"usage\" should be mentioned in option-description",
                       "-" \o ch \o " is not recognized"))
        ELSE LET o == opt[1]
                 rest == From(raw, 2)
             IN  IF o.argcount = 0 THEN
                     parse_shorts_loop(rest, options, tokens, is_pattern,
                                       parsed \o <<[o EXCEPT !.value = True]>>)
                 ELSE IF rest = "" THEN
                     IF current_is_None(tokens) THEN
                         fail(raise(is_pattern,
                                    "-" \o Char(o.short, 1) \o " in \"usage\" requires argument",
                                    "-" \o Char(o.short, 1) \o " requires argument"))
                     ELSE parse_shorts_loop("", options, moved(tokens), is_pattern,
                              parsed \o <<[o EXCEPT !.value = Str(current(tokens))]>>)
                 ELSE parse_shorts_loop("", options, tokens, is_pattern,
                          parsed \o <<[o EXCEPT !.value = Str(rest)]>>)

parse_shorts(raw, options, tokens, is_pattern) ==
    parse_shorts_loop(raw, options, tokens, is_pattern, <<>>)

\* ---------------------------------------------------------------- parse_args

\* One iteration of the `while tokens.current() is not None` loop of parse_args
\* on the stream `tokens` with the leaves `parsed` so far: the exception raised
\* (or NoExc), the stream, the leaves and the descriptor list after it, and
\* whether the loop ended (the `break` after '--').
parse_args_step(tokens, parsed, options) ==
    LET token == current(tokens)
        rest == moved(tokens)
        out(exc, t, p, o, done) ==
            [exc |-> exc, tokens |-> t, parsed |-> p, options |-> o, done |-> done]
    IN  IF token = "--" THEN
            out(NoExc, rest,
                parsed \o [k \in 1..Len(rest) |-> Argument("", Str(rest[k]))],
                options, TRUE)
        ELSE IF startswith(token, "--") THEN
            LET r == parse_long(From(token, 3), options, rest, FALSE)
            IN  out(r.exc, r.tokens,
                    IF r.exc = NoExc THEN parsed \o <<r.opt>> ELSE parsed,
                    r.options, FALSE)
        ELSE IF startswith(token, "-") /\ token # "-" THEN
            LET r == parse_shorts(From(token, 2), options, rest, FALSE)
            IN  out(r.exc, r.tokens,
                    IF r.exc = NoExc THEN parsed \o r.parsed ELSE parsed,
                    r.options, FALSE)
        ELSE out(NoExc, rest, parsed \o <<Argument("", Str(token))>>, options, FALSE)

RECURSIVE parse_args_loop(_, _, _)
parse_args_loop(tokens, parsed, options) ==
    IF current_is_None(tokens)
    THEN [exc |-> NoExc, parsed |-> parsed, options |-> options]
    ELSE LET r == parse_args_step(tokens, parsed, options)
         IN  IF r.exc # NoExc
             THEN [exc |-> r.exc, parsed |-> <<>>, options |-> r.options]
             ELSE IF r.done
             THEN [exc |-> NoExc, parsed |-> r.parsed, options |-> r.options]
             ELSE parse_args_loop(r.tokens, r.parsed, r.options)

\* parse_args(source, options) for a source that is a list of tokens.
parse_args(source, options) == parse_args_loop(source, <<>>, options)

\* ---------------------------------------------------------------- parse_pattern

\* re.sub(r'([\[\]\(\)\|]|\.\.\.)', r' \1 ', source): the matches are found left to
\* right, so of a run of dots every third one starts a '...'.
usage_sub(source) ==
    LET dots(i) == i + 2 <= Len(source) /\ SubSeq(source, i, i + 2) = "..."
        \* the dots just before position i that belong to no earlier '...'
        run(i) == Min({n \in 0..(i - 1) : n = i - 1 \/ Char(source, i - 1 - n) # "."})
        ellipsis(i) == dots(i) /\ run(i) % 3 = 0
        inside(i) == Char(source, i) = "." /\ ~ellipsis(i) /\
                     \/ (i > 1 /\ ellipsis(i - 1))
                     \/ (i > 2 /\ ellipsis(i - 2))
        piece(i) == IF Char(source, i) \in {"[", "]", "(", ")", "|"}
                    THEN " " \o Char(source, i) \o " "
                    ELSE IF ellipsis(i) THEN " ... "
                    ELSE IF inside(i) THEN ""
                    ELSE Char(source, i)
    IN  concat([i \in 1..Len(source) |-> piece(i)], 1, Len(source))

\* `tokens.current() == s` (current() is None on an empty stream).
current_is(tokens, s) == tokens # <<>> /\ tokens[1] = s

UpperCase == "ABCDEFGHIJKLMNOPQRSTUVWXYZÀÁÂÃÄÅÆÇÈÉÊËÌÍÎÏÐÑÒÓÔÕÖØÙÚÛÜÝÞ"
LowerCase == "abcdefghijklmnopqrstuvwxyzªµºßàáâãäåæçèéêëìíîïðñòóôõöøùúûüýþÿ"
\* str.isupper(): some cased character, and no lowercase one (the cased
\* characters up to U+00FF).
isupper(s) ==
    /\ \E i \in 1..Len(s) : find(UpperCase, Char(s, i), 1) > 0
    /\ \A i \in 1..Len(s) : find(LowerCase, Char(s, i), 1) = 0

\* The outcome of a parsing function: the exception raised (or NoExc), the list
\* of patterns returned and the token stream after the call.
PResult(exc, result, tokens) == [exc |-> exc, result |-> result, tokens |-> tokens]

RECURSIVE parse_expr(_, _), parse_expr_loop(_, _, _), parse_seq_loop(_, _, _),
          parse_atom(_, _)

\* parse_seq after `atom = parse_atom(tokens, options)` returned a: the
\* `if tokens.current() == '...'` wrapping, `result += atom`, and the loop again.
parse_seq_atom(a, options, result) ==
    IF a.exc # NoExc THEN a
    ELSE IF current_is(a.tokens, "...")
    THEN parse_seq_loop(moved(a.tokens), options, result \o <<OneOrMore(a.result)>>)
    ELSE parse_seq_loop(a.tokens, options, result \o a.result)

\* The body of parse_seq: the `while` loop with `result` so far.
parse_seq_loop(tokens, options, result) ==
    IF tokens = <<>> \/ tokens[1] \in {"]", ")", "|"}
    THEN PResult(NoExc, result, tokens)
    ELSE parse_seq_atom(parse_atom(tokens, options), options, result)

parse_seq(tokens, options) == parse_seq_loop(tokens, options, <<>>)

\* `[Required(*seq)] if len(seq) > 1 else seq`
wrap_seq(seq) == IF Len(seq) > 1 THEN <<Required(seq)>> ELSE seq

\* parse_expr after a `seq = parse_seq(tokens, options)` returned s, `result`
\* being the alternatives before it: `result += ...`, then the `while` test.
parse_expr_seq(s, options, result) ==
    IF s.exc # NoExc THEN s
    ELSE parse_expr_loop(s.tokens, options, result \o wrap_seq(s.result))

\* The `while tokens.current() == '|'` loop of parse_expr, `result` so far, and
\* its `return`.
parse_expr_loop(tokens, options, result) ==
    IF ~current_is(tokens, "|")
    THEN PResult(NoExc, IF Len(result) = 1 THEN result ELSE <<Either(result)>>, tokens)
    ELSE parse_expr_seq(parse_seq(moved(tokens), options), options, result)

\* parse_expr after its first `seq = parse_seq(tokens, options)` returned s.
parse_expr_first(s, options) ==
    IF s.exc # NoExc THEN s
    ELSE IF ~current_is(s.tokens, "|") THEN s
    ELSE parse_expr_loop(s.tokens, options, wrap_seq(s.result))

parse_expr(tokens, options) == parse_expr_first(parse_seq(tokens, options), options)

\* parse_atom after the bracketed content was parsed with outcome e: the
\* closing bracket is checked and moved over.
parse_atom_close(e, closing, opening) ==
    IF e.exc # NoExc THEN e
    ELSE IF ~current_is(e.tokens, closing)
    THEN PResult(DocoptError("Unmatched '" \o opening \o "'"), <<>>, e.tokens)
    ELSE PResult(NoExc,
                 IF opening = "(" THEN <<Required(e.result)>> ELSE <<Optional(e.result)>>,
                 moved(e.tokens))

\* `return [parse_long(...)]` and `return parse_shorts(...)`
parse_atom_long(r) == PResult(r.exc, IF r.exc = NoExc THEN <<r.opt>> ELSE <<>>, r.tokens)
parse_atom_shorts(r) == PResult(r.exc, r.parsed, r.tokens)

parse_atom(tokens, options) ==
    IF current(tokens) = "(" THEN
        parse_atom_close(parse_expr(moved(tokens), options), ")", "(")
    ELSE IF current(tokens) = "[" THEN
        IF current_is(moved(tokens), "options")
        THEN parse_atom_close(PResult(NoExc, <<AnyOptions>>, moved(moved(tokens))), "]", "[")
        ELSE parse_atom_close(parse_expr(moved(tokens), options), "]", "[")
    ELSE IF current(tokens) = "--" THEN PResult(NoExc, <<>>, moved(tokens))
    ELSE IF startswith(current(tokens), "--") THEN
        parse_atom_long(parse_long(From(current(tokens), 3), options, moved(tokens), TRUE))
    ELSE IF startswith(current(tokens), "-") THEN
        parse_atom_shorts(parse_shorts(From(current(tokens), 2), options, moved(tokens), TRUE))
    ELSE IF \/ startswith(current(tokens), "<") /\ endswith(current(tokens), ">")
            \/ isupper(current(tokens))
    THEN PResult(NoExc, <<Argument(current(tokens), None)>>, moved(tokens))
    ELSE PResult(NoExc, <<Command(current(tokens), False)>>, moved(tokens))

\* parse_pattern after `result = parse_expr(tokens, options)` returned r: the
\* `assert tokens.current() is None` and `return Required(*result)`.
parse_pattern_result(r) ==
    IF r.exc # NoExc THEN [exc |-> r.exc, pattern |-> NoNode]
    ELSE IF ~current_is_None(r.tokens)
    THEN [exc |-> AssertionError, pattern |-> NoNode]
    ELSE [exc |-> NoExc, pattern |-> Required(r.result)]

\* parse_pattern(source, options): the exception raised (or NoExc) and the tree.
parse_pattern(source, options) ==
    parse_pattern_result(parse_expr(split(usage_sub(source)), options))

\* ---------------------------------------------------------------- match

TypeError == [type |-> "TypeError", msg |-> ""]

\* The outcome of p.match(left, collected): the exception raised (or NoExc), the
\* boolean, the two lists returned, and the heap after the call.  A composite
\* hands its children a copy of `left` or a list of its own, so the in-place
\* left.remove() of Argument.match and Command.match is seen only through the
\* list they return.
MResult(exc, m, left, collected, heap) ==
    [exc |-> exc, m |-> m, left |-> left, collected |-> collected, heap |-> heap]

\* a.value of a leaf of `collected`, read through the heap.
value_of(a, heap) == IF a.ref > 0 THEN List(heap[a.ref]) ELSE a.value

\* list.remove(x): the list without its first element equal to x.
remove(list, x) ==
    LET k == CHOOSE k \in 1..Len(list) :
                 list[k] = x /\ \A j \in 1..(k - 1) : list[j] # x
    IN  SubSeq(list, 1, k - 1) \o SubSeq(list, k + 1, Len(list))

\* `[l for l in left if type(l) is Argument]`
arguments_of(left) == SelectSeq(left, LAMBDA l : l.type = "Argument")

\* `[a for a in collected if type(a) is Argument and a.name == self.name]`, as
\* positions in `collected`.
same_name(collected, name) ==
    {k \in 1..Len(collected) :
        collected[k].type = "Argument" /\ collected[k].name = name}

\* Argument(self.name, [v]): a new object, whose list is a new heap cell.
new_list_argument(name, v, heap) ==
    [Argument(name, List(<<>>)) EXCEPT !.ref = Len(heap) + 1]

Argument_match(self, left, collected, heap) ==
    LET args == arguments_of(left)
    IN  IF Len(args) = 0 THEN MResult(NoExc, FALSE, left, collected, heap)
        ELSE LET left1 == remove(left, args[1])
                 v == args[1].value
             IN  IF self.value.t # "list" THEN
                     MResult(NoExc, TRUE, left1,
                             collected \o <<Argument(self.name, v)>>, heap)
                 ELSE IF same_name(collected, self.name) # {} THEN
                     LET first == CHOOSE k \in same_name(collected, self.name) :
                                      \A j \in same_name(collected, self.name) : k <= j
                         ref == collected[first].ref
                     IN  IF ref = 0 THEN MResult(TypeError, FALSE, left1, collected, heap)
                         ELSE MResult(NoExc, TRUE, left1, collected,
                                      [heap EXCEPT ![ref] = @ \o <<v.s>>])
                 ELSE MResult(NoExc, TRUE, left1,
                              collected \o <<new_list_argument(self.name, v, heap)>>,
                              heap \o << <<v.s>> >>)

\* Command_fails looking for the name among all the positionals.
Command_fails_anywhere(self, args) ==
    \A k \in 1..Len(args) : args[k].value # Str(self.name)

\* `not len(args) or args[0].value != self.name`
Command_fails(self, args) == Len(args) = 0 \/ args[1].value # Str(self.name)

Command_match(self, left, collected, heap) ==
    LET args == arguments_of(left)
    IN  IF Command_fails(self, args) THEN MResult(NoExc, FALSE, left, collected, heap)
        ELSE MResult(NoExc, TRUE, remove(left, args[1]),
                     collected \o <<Command(self.name, True)>>, heap)

\* The leaves Option.match keeps: `left_`.
Option_left_(self, left) ==
    SelectSeq(left, LAMBDA l : ~(l.type = "Option" /\ self.short = l.short
                                                  /\ self.long = l.long))

Option_match(self, left, collected, heap) ==
    LET left_ == Option_left_(self, left)
    IN  MResult(NoExc, left # left_, left_, collected, heap)

AnyOptions_match(self, left, collected, heap) ==
    LET left_ == SelectSeq(left, LAMBDA l : l.type # "Option")
    IN  MResult(NoExc, left # left_, left_, collected, heap)

\* The first of `outcomes` whose left is shortest: min(outcomes, key=len(left)).
min_outcome(outcomes) ==
    LET k == CHOOSE k \in 1..Len(outcomes) :
                 /\ \A j \in 1..Len(outcomes) :
                        Len(outcomes[k].left) <= Len(outcomes[j].left)
                 /\ \A j \in 1..(k - 1) :
                        Len(outcomes[j].left) > Len(outcomes[k].left)
    IN  outcomes[k]

\* OneOrMore_succeeds asking for a second match.
OneOrMore_succeeds_twice(times) == times >= 2

\* `if times >= 1`
OneOrMore_succeeds(times) == times >= 1

\* OneOrMore.match: `while matched` goes on (the loop condition, after the break
\* test `l_ == l` passed; l_ is None before the first iteration).
OneOrMore_break(l_is_None, l_, l) == ~l_is_None /\ l_ = l

RECURSIVE match(_, _, _, _), Required_loop(_, _, _, _, _, _, _),
          Optional_loop(_, _, _, _, _), OneOrMore_loop(_, _, _, _, _, _, _, _),
          Either_loop(_, _, _, _, _, _)

\* Required.match: `for p in self.children` from child i on, with the locals l, c.
Required_loop(self, i, l, c, heap, left, collected) ==
    IF i > Len(self.children) THEN MResult(NoExc, TRUE, l, c, heap)
    ELSE LET r == match(self.children[i], l, c, heap)
         IN  IF r.exc # NoExc THEN r
             ELSE IF ~r.m THEN MResult(NoExc, FALSE, left, collected, r.heap)
             ELSE Required_loop(self, i + 1, r.left, r.collected, r.heap, left, collected)

\* Optional.match: `for p in self.children` from child i on.
Optional_loop(self, i, left, collected, heap) ==
    IF i > Len(self.children) THEN MResult(NoExc, TRUE, left, collected, heap)
    ELSE LET r == match(self.children[i], left, collected, heap)
         IN  IF r.exc # NoExc THEN r
             ELSE Optional_loop(self, i + 1, r.left, r.collected, r.heap)

\* OneOrMore.match: the `while matched` loop, entered with the locals
\* l, c, l_ (None when l_is_None) and times; the result carries l, c and times.
OneOrMore_loop(self, l, c, heap, l_is_None, l_, times, n) ==
    LET r == match(self.children[1], l, c, heap)
        times1 == times + (IF r.m THEN 1 ELSE 0)
        out == [exc |-> r.exc, l |-> r.left, c |-> r.collected, heap |-> r.heap,
                times |-> times1, n |-> n + 1]
    IN  IF r.exc # NoExc THEN out
        ELSE IF OneOrMore_break(l_is_None, l_, r.left) THEN out
        ELSE IF ~r.m THEN out
        ELSE OneOrMore_loop(self, r.left, r.collected, r.heap, FALSE, r.left,
                            times1, n + 1)

\* Either.match: `for p in self.children` from child i on, `outcomes` so far.
Either_loop(self, i, left, collected, heap, outcomes) ==
    IF i > Len(self.children) THEN
        IF outcomes # <<>>
        THEN LET o == min_outcome(outcomes)
             IN  MResult(NoExc, TRUE, o.left, o.collected, heap)
        ELSE MResult(NoExc, FALSE, left, collected, heap)
    ELSE LET r == match(self.children[i], left, collected, heap)
         IN  IF r.exc # NoExc THEN r
             ELSE Either_loop(self, i + 1, left, collected, r.heap,
                              IF r.m THEN outcomes \o <<r>> ELSE outcomes)

OneOrMore_match(self, left, collected, heap) ==
    IF Len(self.children) # 1 THEN MResult(AssertionError, FALSE, left, collected, heap)
    ELSE LET r == OneOrMore_loop(self, left, collected, heap, TRUE, <<>>, 0, 0)
         IN  IF r.exc # NoExc THEN MResult(r.exc, FALSE, r.l, r.c, r.heap)
             ELSE IF OneOrMore_succeeds(r.times) THEN MResult(NoExc, TRUE, r.l, r.c, r.heap)
             ELSE MResult(NoExc, FALSE, left, collected, r.heap)

\* p.match(left, collected) on the heap `heap`.
match(p, left, collected, heap) ==
    CASE p.type = "Argument" -> Argument_match(p, left, collected, heap)
      [] p.type = "Command" -> Command_match(p, left, collected, heap)
      [] p.type = "Option" -> Option_match(p, left, collected, heap)
      [] p.type = "AnyOptions" -> AnyOptions_match(p, left, collected, heap)
      [] p.type = "Required" -> Required_loop(p, 1, left, collected, heap, left, collected)
      [] p.type = "Optional" -> Optional_loop(p, 1, left, collected, heap)
      [] p.type = "OneOrMore" -> OneOrMore_match(p, left, collected, heap)
      [] p.type = "Either" -> Either_loop(p, 1, left, collected, heap, <<>>)

\* A list of leaves with every value read through the heap (what a caller that
\* reads a.value sees).
deref(list, heap) ==
    [k \in 1..Len(list) |-> [list[k] EXCEPT !.value = value_of(list[k], heap), !.ref = 0]]

\* ---------------------------------------------------------------- fix

RECURSIVE flat(_), flat_of(_, _)
\* sum([c.flat for c in children[i:]], [])
flat_of(children, i) ==
    IF i > Len(children) THEN <<>> ELSE flat(children[i]) \o flat_of(children, i + 1)
\* Pattern.flat: the leaves of the tree, left to right.
flat(p) == IF ~has_children(p) THEN <<p>> ELSE flat_of(p.children, 1)

\* The position of the first element of list equal to x: list.index(x).
index(list, x) ==
    CHOOSE k \in 1..Len(list) : list[k] = x /\ \A j \in 1..(k - 1) : list[j] # x

\* The first child of `children` of class `type`.
first_of_type(children, type) ==
    children[CHOOSE k \in 1..Len(children) :
                 children[k].type = type /\ \A j \in 1..(k - 1) : children[j].type # type]

types_of(children) == {children[k].type : k \in 1..Len(children)}

RECURSIVE either_loop(_, _)
\* Pattern.either: the `while groups` loop; `ret` is the list of finished cases.
either_loop(groups, ret) ==
    IF groups = <<>> THEN ret
    ELSE
    LET children == groups[1]
        rest == Tail(groups)
        types == types_of(children)
        without(c) == remove(children, children[index(children, c)])  \* pop(index(c))
    IN  IF "Either" \in types THEN
            LET e == first_of_type(children, "Either")
            IN  either_loop(rest \o [k \in 1..Len(e.children) |->
                                        <<e.children[k]>> \o without(e)], ret)
        ELSE IF "Required" \in types THEN
            LET r == first_of_type(children, "Required")
            IN  either_loop(rest \o <<r.children \o without(r)>>, ret)
        ELSE IF "Optional" \in types THEN
            LET o == first_of_type(children, "Optional")
            IN  either_loop(rest \o <<o.children \o without(o)>>, ret)
        ELSE IF "OneOrMore" \in types THEN
            LET o == first_of_type(children, "OneOrMore")
            IN  either_loop(rest \o <<o.children \o o.children \o without(o)>>, ret)
        ELSE either_loop(rest, ret \o <<children>>)

\* Pattern.either of a node with children: the cases, each a list of leaves
\* (the children of one Required of the Either returned).
either(self) == either_loop(<< <<self>> >>, <<>>)

\* case.count(c)
count(case, c) == Cardinality({k \in 1..Len(case) : case[k] = c})

\* fix_list_arguments: the Arguments that get `a.value = []`, i.e. those that
\* occur more than once in some case.  Equal leaves are one object after
\* fix_identities, so the objects are named by their value before the fix.
list_arguments(self) ==
    LET cases == either(self)
    IN  {a \in UNION {{cases[i][k] : k \in 1..Len(cases[i])} : i \in 1..Len(cases)} :
            a.type = "Argument" /\ \E i \in 1..Len(cases) : count(cases[i], a) > 1}

RECURSIVE with_list_values(_, _)
\* The tree as match sees it after fix(): every leaf is the canonical object of
\* its value (fix_identities), and the canonical objects in `lists` have
\* value [].
with_list_values(p, lists) ==
    IF ~has_children(p) THEN (IF p \in lists THEN [p EXCEPT !.value = List(<<>>)] ELSE p)
    ELSE [p EXCEPT !.children =
             [k \in 1..Len(p.children) |-> with_list_values(p.children[k], lists)]]

\* Pattern.fix(): fix_identities, then fix_list_arguments.
fix(self) == with_list_values(self, list_arguments(self))

\* fix_identities keeps as canonical object of equal leaves the one that comes
\* first in self.flat (set() keeps the element it saw first).  `objects` is a
\* list of leaf objects taken from self.flat in order, before fix(): the same
\* objects after fix(), where only a canonical object was assigned `[]`.
objects_after_fix(objects, self) ==
    [k \in 1..Len(objects) |->
        IF objects[k] \in list_arguments(self)
           /\ \A j \in 1..(k - 1) : objects[j] # objects[k]
        THEN [objects[k] EXCEPT !.value = List(<<>>)]
        ELSE objects[k]]

\* `[a for a in formal_pattern.flat if type(a) in [Argument, Command]]`
pot_arguments_of(pattern) ==
    SelectSeq(flat(pattern), LAMBDA a : a.type \in {"Argument", "Command"})

\* ---------------------------------------------------------------- the doc

\* One character as re.I compares it with the letters of the patterns, which
\* are ASCII: only an ASCII capital equals another character, its small letter.
lower_char(c) ==
    LET k == find("ABCDEFGHIJKLMNOPQRSTUVWXYZ", c, 1)
    IN  IF k > 0 THEN Char("abcdefghijklmnopqrstuvwxyz", k) ELSE c
lower(s) == concat([i \in 1..Len(s) |-> lower_char(Char(s, i))], 1, Len(s))

\* The least i >= from where s continues with `sub` (given in lower case), the
\* case of s ignored; 0 if none.
find_nocase(s, sub, from) ==
    LET at == {i \in from..(Len(s) + 1 - Len(sub)) :
                  lower(SubSeq(s, i, i + Len(sub) - 1)) = sub}
    IN  IF at = {} THEN 0 ELSE Min(at)

\* The first position >= i of s that holds no whitespace other than '\n'
\* (Len(s) + 1 if none).
skip_blanks(s, i) ==
    Min({k \in i..(Len(s) + 1) :
            k = Len(s) + 1 \/ ~IsSpace(Char(s, k)) \/ Char(s, k) = "\n"})

\* The least i >= from where r'\n\s*\n' matches in s; 0 if none.
find_blank_line(s, from) ==
    LET at == {i \in from..Len(s) :
                  /\ Char(s, i) = "\n"
                  /\ LET k == skip_blanks(s, i + 1) IN k <= Len(s) /\ Char(s, k) = "\n"}
    IN  IF at = {} THEN 0 ELSE Min(at)

printable_usage(doc) ==
    LET u == find_nocase(doc, "usage:", 1)
        text == IF u = 0 THEN "" ELSE From(doc, u)
        b == find_blank_line(text, 1)
    IN  strip(IF b = 0 THEN text ELSE SubSeq(text, 1, b - 1))

formal_usage(printable) ==
    LET pu == Tail(split(printable))
    IN  IF split(printable) = <<>> \/ pu = <<>> THEN ""
        ELSE join([k \in 1..(Len(pu) - 1) |->
                      IF pu[k + 1] = pu[1] THEN "|" ELSE pu[k + 1]], " ")

\* Where r' *-' ends when matched at position i of s; 0 if it does not match.
spaces_then_dash(s, i) ==
    LET k == Min({k \in i..(Len(s) + 1) : k = Len(s) + 1 \/ Char(s, k) # " "})
    IN  IF k <= Len(s) /\ Char(s, k) = "-" THEN k ELSE 0

\* Where r'^ *-|\n *-' ends when matched at position i of s; 0 if it does not.
option_start(s, i) ==
    IF i = 1 /\ spaces_then_dash(s, 1) > 0 THEN spaces_then_dash(s, 1)
    ELSE IF Char(s, i) = "\n" THEN spaces_then_dash(s, i + 1)
    ELSE 0

\* re.split('^ *-|\n *-', s): the pieces between the matches (two matches
\* never overlap: a match holds one '\n', at its start, and ends at its '-').
doc_split(s) ==
    LET starts == {i \in 1..Len(s) : option_start(s, i) > 0}
        n == Cardinality(starts)
        start(k) == CHOOSE i \in starts : Cardinality({j \in starts : j < i}) = k - 1
    IN  [k \in 1..(n + 1) |->
            SubSeq(s, IF k = 1 THEN 1 ELSE option_start(s, start(k - 1)) + 1,
                      IF k = n + 1 THEN Len(s) ELSE start(k) - 1)]

\* s.replace(old, new) for a one-character old.
replace_char(s, old, new) ==
    concat([i \in 1..Len(s) |-> IF Char(s, i) = old THEN new ELSE Char(s, i)], 1, Len(s))

\* The last ']' of s in positions lo..hi; 0 if none.
last_bracket(s, lo, hi) ==
    LET at == {j \in lo..hi : Char(s, j) = "]"} IN IF at = {} THEN 0 ELSE Max(at)

RECURSIVE find_default(_, _)
\* re.findall('\[default: (.*)\]', description, flags=re.I): the first match's
\* group as a value, or False when nothing matches.  `.` stops at a newline
\* and `.*` is greedy: the group runs to the last ']' of the line.
find_default(description, from) ==
    LET i == find_nocase(description, "[default: ", from)
        nl == find(description, "\n", i + 10)
        eol == IF nl = 0 THEN Len(description) ELSE nl - 1
        j == last_bracket(description, i + 10, eol)
    IN  IF i = 0 THEN False
        ELSE IF j > 0 THEN Str(SubSeq(description, i + 10, j - 1))
        ELSE find_default(description, i + 1)

RECURSIVE option_loop(_, _, _)
\* The `for s in options.split()` loop of option(), over words[i..], o being
\* the (short, long, argcount) so far.
option_loop(words, i, o) ==
    IF i > Len(words) THEN o
    ELSE IF startswith(words[i], "--")
         THEN option_loop(words, i + 1, [o EXCEPT !.long = words[i]])
    ELSE IF startswith(words[i], "-")
         THEN option_loop(words, i + 1, [o EXCEPT !.short = words[i]])
    ELSE option_loop(words, i + 1, [o EXCEPT !.argcount = 1])

option(full_description) ==
    LET d == strip(full_description)
        k == find(d, "  ", 1)
        options == IF k > 0 THEN SubSeq(d, 1, k - 1) ELSE d
        description == IF k > 0 THEN From(d, k + 2) ELSE ""
        words == split(replace_char(replace_char(options, ",", " "), "=", " "))
        o == option_loop(words, 1, Option("", "", 0, False))
    IN  IF o.argcount = 1 THEN [o EXCEPT !.value = find_default(description, 1)] ELSE o

parse_doc_options(doc) ==
    LET pieces == Tail(doc_split(doc))
    IN  [k \in 1..Len(pieces) |-> option("-" \o pieces[k])]

\* ---------------------------------------------------------------- docopt

SystemExit == [type |-> "SystemExit", msg |-> ""]

\* extras(help, version, options, doc) with the defaults help=True and
\* version=None: whether it prints the doc and exits.
extras_exits(options) ==
    \E k \in 1..Len(options) :
        option_name(options[k]) \in {"-h", "--help"} /\ truthy(options[k].value)

\* DocoptExit.__init__: the usage is appended to the message.
with_usage(e, usage) ==
    IF e.type = "DocoptExit" THEN [e EXCEPT !.msg = strip(e.msg \o "\n" \o usage)] ELSE e

\* `[o for o in argv if type(o) is Option]`
options_of(leaves) == SelectSeq(leaves, LAMBDA o : o.type = "Option")

\* Dict((a.name, a.value) for a in items): the value of the last item of each name.
Dict(items) ==
    [n \in {leaf_name(items[k]) : k \in 1..Len(items)} |->
        LET last == CHOOSE k \in 1..Len(items) :
                        /\ leaf_name(items[k]) = n
                        /\ \A j \in (k + 1)..Len(items) : leaf_name(items[j]) # n
        IN  items[last].value]

\* The value docopt() returns from the outcome r of the match.
docopt_return(r, pot_options, argv_leaves, pot_arguments, usage) ==
    IF r.exc # NoExc THEN [exc |-> r.exc, result |-> <<>>]
    ELSE IF r.m /\ r.left = <<>>
    THEN [exc |-> NoExc,
          result |-> Dict(pot_options \o options_of(argv_leaves) \o pot_arguments
                          \o deref(r.collected, r.heap))]
    ELSE [exc |-> with_usage(DocoptExit(""), usage), result |-> <<>>]

\* docopt(doc, argv): the exception raised (or NoExc) and the Dict returned.
docopt(doc_, argv_) ==
    LET usage == printable_usage(doc_)
        table == parse_doc_options(doc_)
        a == parse_args(argv_, table)
        fp == parse_pattern(formal_usage(usage), table)
        pot == pot_arguments_of(fp.pattern)
    IN  IF a.exc # NoExc THEN [exc |-> with_usage(a.exc, usage), result |-> <<>>]
        ELSE IF extras_exits(options_of(a.parsed)) THEN [exc |-> SystemExit, result |-> <<>>]
        ELSE IF fp.exc # NoExc THEN [exc |-> with_usage(fp.exc, usage), result |-> <<>>]
        ELSE docopt_return(match(fix(fp.pattern), a.parsed, <<>>, <<>>), table, a.parsed,
                           objects_after_fix(pot, fp.pattern), usage)

\* ---------------------------------------------------------------- state

VARIABLES
    doc,             \* docopt's doc argument
    argv,            \* docopt's argv argument: a list of tokens
    pc,              \* the statement the program is at
    pot_options,     \* the descriptor table (parse_doc_options)
    tokens,          \* parse_args: the TokenStream over argv
    parsed,          \* parse_args: the leaves lexed so far
    exc,             \* the exception raised, NoExc while none
    formal_pattern,  \* the pattern tree
    pot_arguments,   \* docopt: the Argument/Command objects of the usage
    left,            \* match: the leaves not consumed (OneOrMore's l)
    collected,       \* match: the leaves collected (OneOrMore's c)
    heap,            \* the list values of the accumulating Argument objects
    matched,         \* match: the boolean returned
    l_,              \* OneOrMore.match: the local l_
    times,           \* OneOrMore.match: the local times
    ncalls,          \* the number of match calls made on the state
    result,          \* docopt: the Dict returned
    prev             \* what the last operation was applied to

vars == <<doc, argv, pc, pot_options, tokens, parsed, exc, formal_pattern,
          pot_arguments, left, collected, heap, matched, l_, times, ncalls,
          result, prev>>

lexVars == <<pot_options, tokens, parsed>>
treeVars == <<formal_pattern, pot_arguments>>
matchVars == <<left, collected, heap, matched>>
loopVars == <<l_, times, ncalls>>

NoPrev == [op |-> ""]
l_None == [is_None |-> TRUE, list |-> <<>>]

\* ---------------------------------------------------------------- parse_args, step by step

LexGuard == pc = "parse_args" /\ ~current_is_None(tokens)

\* The effect of one loop iteration on the state.
LexApply ==
    LET r == parse_args_step(tokens, parsed, pot_options)
    IN  /\ prev' = [op |-> "parse_args", token |-> current(tokens),
                    tokens |-> tokens, parsed |-> parsed, options |-> pot_options]
        /\ exc' = with_usage(r.exc, printable_usage(doc))
        /\ tokens' = r.tokens
        /\ parsed' = r.parsed
        /\ pot_options' = r.options
        /\ pc' = IF r.exc # NoExc THEN "raised"
                 ELSE IF r.done THEN "lexed" ELSE "parse_args"
        /\ UNCHANGED <<doc, argv, treeVars, matchVars, loopVars, result>>

\* `if token == '--'`
LexSeparator == LexGuard /\ current(tokens) = "--" /\ LexApply

\* `elif token.startswith('--')`
LexLong ==
    /\ LexGuard
    /\ current(tokens) # "--" /\ startswith(current(tokens), "--")
    /\ LexApply

\* `elif token.startswith('-') and token != '-'`
LexShorts ==
    /\ LexGuard
    /\ ~startswith(current(tokens), "--")
    /\ startswith(current(tokens), "-") /\ current(tokens) # "-"
    /\ LexApply

\* `else`
LexPositional ==
    /\ LexGuard
    /\ ~startswith(current(tokens), "-") \/ current(tokens) = "-"
    /\ LexApply

\* The loop ends: `return parsed`.
LexReturn ==
    /\ pc = "parse_args" /\ current_is_None(tokens)
    /\ pc' = "lexed"
    /\ prev' = [op |-> "return", token |-> "", tokens |-> tokens, parsed |-> parsed,
                options |-> pot_options]
    /\ UNCHANGED <<doc, argv, lexVars, exc, treeVars, matchVars, loopVars, result>>

LexNext == LexSeparator \/ LexLong \/ LexShorts \/ LexPositional \/ LexReturn

\* ---------------------------------------------------------------- SpecLex

\* The longest argv of SpecLex.
MaxArgv == 2

Seqs(S, n) == UNION {[1..k -> S] : k \in 0..n}

\* The descriptors of SpecLex, as option() builds them from the lines
\*   --verbose / --verify / --speed=<kn> [default: 10] / -a / -b / -o FILE
LexTable ==
    << Option("", "--verbose", 0, False), Option("", "--verify", 0, False),
       Option("", "--speed", 1, Str("10")), Option("-a", "", 0, False),
       Option("-b", "", 0, False), Option("-o", "", 1, False) >>

LexTokens ==
    {"--verb", "--ver", "--verbo", "--verbose", "--speed", "--speed=5", "--speed=",
     "--verify=1", "--x", "-ab", "-ba", "-a", "-b", "-o", "-ox", "-aox", "-ao", "-x",
     "--", "-", "x"}

InitLex ==
    /\ doc = "" /\ argv \in Seqs(LexTokens, MaxArgv)
    /\ pc = "parse_args"
    /\ pot_options = LexTable
    /\ tokens = argv /\ parsed = <<>> /\ exc = NoExc
    /\ formal_pattern = NoNode /\ pot_arguments = <<>>
    /\ left = <<>> /\ collected = <<>> /\ heap = <<>> /\ matched = FALSE
    /\ l_ = l_None /\ times = 0 /\ ncalls = 0
    /\ result = <<>> /\ prev = NoPrev

SpecLex == InitLex /\ [][LexNext]_vars

\* ---------------------------------------------------------------- the lexer's tokens

\* p is a prefix of s.
IsPrefix(p, s) == \E k \in 0..Len(s) : SubSeq(s, 1, k) = p

\* s occurs in msg.
Mentions(msg, s) == \E k \in 1..(Len(msg) + 1 - Len(s)) : SubSeq(msg, k, k + Len(s) - 1) = s

\* The last step lexed a long option token / a stack of short options.
LexedLong ==
    prev.op = "parse_args" /\ IsPrefix("--", prev.token) /\ prev.token # "--"
LexedShorts ==
    /\ prev.op = "parse_args" /\ IsPrefix("-", prev.token)
    /\ ~IsPrefix("--", prev.token) /\ prev.token # "-"

\* NAME of the token --NAME or --NAME=VALUE, and whether =VALUE is there.
HasInline == \E k \in 1..Len(prev.token) : Char(prev.token, k) = "="
InlineAt == Min({k \in 1..Len(prev.token) : Char(prev.token, k) = "="})
LongName ==
    IF HasInline THEN SubSeq(prev.token, 3, InlineAt - 1) ELSE From(prev.token, 3)

\* The descriptors whose long name, dashes stripped, starts with NAME.
LongCandidates ==
    {k \in 1..Len(prev.options) :
        /\ IsPrefix("--", prev.options[k].long)
        /\ IsPrefix(LongName, From(prev.options[k].long, 3))}

\* The token ended in the user error whose message says `what`.
UserError(what) == pc = "raised" /\ exc.type = "DocoptExit" /\ Mentions(exc.msg, what)

\* The token resolved to descriptor k: one leaf was appended, a copy of the
\* descriptor but for its value.
ResolvedTo(k) ==
    /\ exc = NoExc
    /\ Len(parsed) = Len(prev.parsed) + 1
    /\ SubSeq(parsed, 1, Len(prev.parsed)) = prev.parsed
    /\ [parsed[Len(parsed)] EXCEPT !.value = None] = [prev.options[k] EXCEPT !.value = None]

\* C4 (as stated): --NAME or --NAME=VALUE resolves to a descriptor iff exactly
\* one descriptor's long name starts with NAME, and then yields a clone of it;
\* no such descriptor is the user error 'unrecognized', more than one the user
\* error 'ambiguous' (with --verbose and --verify, --verb is ambiguous and
\* --verbo resolves to --verbose); the descriptor table is unchanged.
C4_AsStated ==
    LexedLong =>
        /\ (Cardinality(LongCandidates) = 1) <=> (\E k \in LongCandidates : ResolvedTo(k))
        /\ Cardinality(LongCandidates) = 0 => UserError("is not recognized")
        /\ Cardinality(LongCandidates) > 1 => UserError("is not a unique prefix")
        /\ prev.token = "--verb" => UserError("is not a unique prefix")
        /\ prev.token = "--verbo" =>
              \E k \in LongCandidates : prev.options[k].long = "--verbose" /\ ResolvedTo(k)
        /\ pot_options = prev.options

\* C4 (amended): the candidates of --NAME or --NAME=VALUE are the descriptors
\* whose long name starts with NAME.  None is the user error 'not recognized',
\* more than one the user error 'not a unique prefix'.  Exactly one yields a
\* clone of that descriptor, unless the arity is wrong: a valued option with
\* neither =VALUE nor a next token is the user error 'requires argument', a
\* flag with =VALUE the user error 'must not have an argument'.  With
\* --verbose and --verify, --ver is ambiguous, --verb and --verbo resolve to
\* --verbose.  The table is unchanged.
C4_LongPrefix ==
    LexedLong =>
        /\ Cardinality(LongCandidates) = 0 => UserError("is not recognized")
        /\ Cardinality(LongCandidates) > 1 => UserError("is not a unique prefix")
        /\ \A k \in LongCandidates : Cardinality(LongCandidates) = 1 =>
              IF prev.options[k].argcount = 1 /\ ~HasInline /\ Len(prev.tokens) = 1
              THEN UserError("requires argument")
              ELSE IF prev.options[k].argcount = 0 /\ HasInline
              THEN UserError("must not have an argument")
              ELSE ResolvedTo(k)
        /\ prev.token = "--ver" => UserError("is not a unique prefix")
        /\ prev.token \in {"--verb", "--verbo"} =>
              \E k \in LongCandidates : prev.options[k].long = "--verbose" /\ ResolvedTo(k)
        /\ pot_options = prev.options

\* --verb was lexed against a table holding --verbose and --verify, and
\* resolved to --verbose.
C4_Witness ==
    /\ LexedLong /\ prev.token = "--verb" /\ exc = NoExc
    /\ \E i, j \in 1..Len(prev.options) :
          prev.options[i].long = "--verbose" /\ prev.options[j].long = "--verify"
    /\ parsed[Len(parsed)] = Option("", "--verbose", 0, True)

\* The characters of the stack of the short token, dash dropped.
Stack == From(prev.token, 2)

\* The descriptors that character i of the stack names.
ShortCandidates(i) ==
    {k \in 1..Len(prev.options) : prev.options[k].short = "-" \o Char(Stack, i)}

\* Character i of the stack names one flag / one valued option.
NamesFlag(i) ==
    \E k \in ShortCandidates(i) :
        ShortCandidates(i) = {k} /\ prev.options[k].argcount = 0
NamesValued(i) ==
    \E k \in ShortCandidates(i) :
        ShortCandidates(i) = {k} /\ prev.options[k].argcount = 1

\* The descriptor that character i names, given value v.
ShortLeaf(i, v) ==
    [prev.options[CHOOSE k \in ShortCandidates(i) : TRUE] EXCEPT !.value = v]

\* The first character of the stack that does not name a flag (Len + 1: none).
FirstNonFlag == Min({i \in 1..(Len(Stack) + 1) : i > Len(Stack) \/ ~NamesFlag(i)})

\* The leaves of the flags before the first non-flag character.
FlagLeaves == [i \in 1..(FirstNonFlag - 1) |-> ShortLeaf(i, True)]

\* C5: a stack -c1c2...cn is processed left to right.  Each character naming
\* a flag emits that option with value true, and a stack of flags only yields
\* the leaves of the separate tokens -c1 -c2 ... -cn.  The first character
\* naming a valued option takes the rest of the stack as its value, or the next
\* argv token when the stack is exhausted, and is a user error when neither
\* exists.
C5_StackedShorts ==
    LexedShorts =>
        /\ FirstNonFlag > Len(Stack) =>
              /\ exc = NoExc
              /\ parsed = prev.parsed \o FlagLeaves
              /\ tokens = Tail(prev.tokens)
              /\ FlagLeaves =
                    parse_args([i \in 1..Len(Stack) |-> "-" \o Char(Stack, i)],
                               prev.options).parsed
        /\ (FirstNonFlag <= Len(Stack) /\ NamesValued(FirstNonFlag)) =>
              IF FirstNonFlag < Len(Stack)
              THEN /\ exc = NoExc
                   /\ parsed = prev.parsed \o FlagLeaves \o
                        <<ShortLeaf(FirstNonFlag, Str(From(Stack, FirstNonFlag + 1)))>>
                   /\ tokens = Tail(prev.tokens)
              ELSE IF Len(prev.tokens) > 1
              THEN /\ exc = NoExc
                   /\ parsed = prev.parsed \o FlagLeaves \o
                        <<ShortLeaf(FirstNonFlag, Str(prev.tokens[2]))>>
                   /\ tokens = Tail(Tail(prev.tokens))
              ELSE UserError("requires argument")
        /\ pot_options = prev.options

\* -aox was lexed: the flag -a, then the valued -o with the rest of the stack.
C5_Witness ==
    /\ LexedShorts /\ prev.token = "-aox" /\ exc = NoExc
    /\ parsed = prev.parsed \o <<Option("-a", "", 0, True), Option("-o", "", 1, Str("x"))>>

\* ---------------------------------------------------------------- docopt, step by step

\* docopt() is entered: printable_usage, parse_doc_options, and parse_args
\* makes its TokenStream.
DocStart ==
    /\ pc = "docopt"
    /\ pot_options' = parse_doc_options(doc)
    /\ tokens' = argv /\ parsed' = <<>>
    /\ pc' = "parse_args"
    /\ prev' = [op |-> "docopt"]
    /\ UNCHANGED <<doc, argv, exc, treeVars, matchVars, loopVars, result>>

\* `extras(help, version, options, doc)`
Extras ==
    /\ pc = "lexed"
    /\ IF extras_exits(options_of(parsed))
       THEN exc' = SystemExit /\ pc' = "raised"
       ELSE exc' = exc /\ pc' = "parse_pattern"
    /\ prev' = [op |-> "extras"]
    /\ UNCHANGED <<doc, argv, lexVars, treeVars, matchVars, loopVars, result>>

\* `formal_pattern = parse_pattern(...)` and `pot_arguments = [...]`
ParsePattern ==
    /\ pc = "parse_pattern"
    /\ LET r == parse_pattern(formal_usage(printable_usage(doc)), pot_options)
       IN  /\ exc' = with_usage(r.exc, printable_usage(doc))
           /\ formal_pattern' = r.pattern
           /\ pot_arguments' = IF r.exc = NoExc THEN pot_arguments_of(r.pattern) ELSE <<>>
           /\ pc' = IF r.exc = NoExc THEN "fix" ELSE "raised"
    /\ prev' = [op |-> "parse_pattern"]
    /\ UNCHANGED <<doc, argv, lexVars, matchVars, loopVars, result>>

\* `formal_pattern.fix()`
Fix ==
    /\ pc = "fix"
    /\ formal_pattern' = fix(formal_pattern)
    /\ pot_arguments' = objects_after_fix(pot_arguments, formal_pattern)
    /\ pc' = "match"
    /\ prev' = [op |-> "fix", pattern |-> formal_pattern]
    /\ UNCHANGED <<doc, argv, lexVars, exc, matchVars, loopVars, result>>

\* `matched, left, arguments = formal_pattern.match(argv)`
Match ==
    /\ pc = "match"
    /\ LET r == match(formal_pattern, parsed, <<>>, <<>>)
       IN  /\ exc' = r.exc
           /\ matched' = r.m /\ left' = r.left
           /\ collected' = r.collected /\ heap' = r.heap
           /\ pc' = IF r.exc = NoExc THEN "matched" ELSE "raised"
    /\ prev' = [op |-> "match", pat |-> formal_pattern, left |-> parsed,
                collected |-> <<>>, heap |-> <<>>]
    /\ ncalls' = ncalls + 1
    /\ UNCHANGED <<doc, argv, lexVars, treeVars, l_, times, result>>

\* `if matched and left == []: return Dict(...)`, else `raise DocoptExit()`
Return ==
    /\ pc = "matched"
    /\ LET r == docopt_return(MResult(NoExc, matched, left, collected, heap),
                              pot_options, parsed, pot_arguments, printable_usage(doc))
       IN  /\ exc' = r.exc
           /\ result' = r.result
           /\ pc' = IF r.exc = NoExc THEN "done" ELSE "raised"
    /\ prev' = [op |-> "return"]
    /\ UNCHANGED <<doc, argv, lexVars, treeVars, matchVars, loopVars>>

Next == DocStart \/ LexNext \/ Extras \/ ParsePattern \/ Fix \/ Match \/ Return

\* The longest argv of Spec.
MaxArgs == 2

OptionsSection == "\n\n-a  flag\n--speed=<kn>  speed [default: 10]"

Docs ==
    {"usage: prog [NAME [NAME ...]]",
     "usage: prog [-a] [--speed=<kn>] [go] [<x>...]" \o OptionsSection,
     "usage: prog <x> <x>",
     "usage: prog <x> [(<x> -a)] [<y>]" \o OptionsSection,
     "usage: prog -a" \o OptionsSection,
     "usage: prog <x> (<x> | <x> -a)" \o OptionsSection}

ArgvTokens == {"1", "2", "-a", "go", "--speed=5", "--"}

Init ==
    /\ doc \in Docs /\ argv \in Seqs(ArgvTokens, MaxArgs)
    /\ pc = "docopt"
    /\ pot_options = <<>> /\ tokens = <<>> /\ parsed = <<>> /\ exc = NoExc
    /\ formal_pattern = NoNode /\ pot_arguments = <<>>
    /\ left = <<>> /\ collected = <<>> /\ heap = <<>> /\ matched = FALSE
    /\ l_ = l_None /\ times = 0 /\ ncalls = 0
    /\ result = <<>> /\ prev = NoPrev

Spec == Init /\ [][Next]_vars

\* The whole run agrees with the function docopt(doc, argv).
RunIsDocopt ==
    /\ pc = "done" => docopt(doc, argv) = [exc |-> NoExc, result |-> result]
    /\ pc = "raised" => docopt(doc, argv) = [exc |-> exc, result |-> <<>>]

\* ---------------------------------------------------------------- the result of docopt()

\* The values of the positional leaves of the lexed argv, in argv order.
Positionals == [k \in 1..Len(arguments_of(parsed)) |-> arguments_of(parsed)[k].value.s]

\* The Argument and Command names of the usage.
PositionalNames ==
    {flat(formal_pattern)[k].name : k \in
        {j \in 1..Len(flat(formal_pattern)) :
            flat(formal_pattern)[j].type \in {"Argument", "Command"}}}

\* The name is an accumulating Argument of the normalised tree.
Accumulates(n) ==
    \E k \in 1..Len(flat(formal_pattern)) :
        /\ flat(formal_pattern)[k].type = "Argument"
        /\ flat(formal_pattern)[k].name = n
        /\ flat(formal_pattern)[k].value.t = "list"

\* The positionals that the assignment f (position -> name) gives to n, in order.
AssignedTo(f, n) ==
    LET at == {k \in DOMAIN f : f[k] = n}
        nth(i) == CHOOSE k \in at : Cardinality({j \in at : j < k}) = i - 1
    IN  [i \in 1..Cardinality(at) |-> Positionals[nth(i)]]

RECURSIVE MinPositionals(_), SumMin(_, _)
\* The least number of positionals a pattern consumes when it matches.
MinPositionals(p) ==
    CASE p.type \in {"Argument", "Command"} -> 1
      [] p.type \in {"Option", "AnyOptions", "Optional"} -> 0
      [] p.type = "Either" ->
            Min({MinPositionals(p.children[k]) : k \in 1..Len(p.children)})
      [] OTHER -> SumMin(p.children, 1)
SumMin(children, i) ==
    IF i > Len(children) THEN 0
    ELSE MinPositionals(children[i]) + SumMin(children, i + 1)

\* C1 (as stated): with an empty argv that the usage accepts, docopt returns for
\* every flag option False, for every valued option its declared default
\* string, for every Command False, for every non-accumulating Argument None,
\* and for every accumulating Argument the empty list, wherever it occurs.
C1_EmptyArgvDefaults ==
    (pc = "done" /\ argv = <<>>) =>
        /\ \A k \in 1..Len(pot_options) :
              \/ pot_options[k].argcount = 1 /\ pot_options[k].value.t # "str"
              \/ result[option_name(pot_options[k])] =
                    IF pot_options[k].argcount = 0 THEN False ELSE pot_options[k].value
        /\ \A k \in 1..Len(flat(formal_pattern)) :
              CASE flat(formal_pattern)[k].type = "Command" ->
                        result[flat(formal_pattern)[k].name] = False
                [] flat(formal_pattern)[k].type = "Argument" ->
                        result[flat(formal_pattern)[k].name] =
                            IF Accumulates(flat(formal_pattern)[k].name)
                            THEN List(<<>>) ELSE None
                [] OTHER -> TRUE

\* C2 (as stated): in a successful parse every positional of argv is consumed
\* by one leaf of the usage, and an accumulating Argument ends as the list of
\* exactly the positionals assigned to it, one entry each, in argv order (a
\* plain Argument as its one positional, a Command as True); with fewer
\* positionals than the usage requires the parse does not succeed.
C2_AccumulatedList ==
    pc = "done" =>
        /\ Len(Positionals) >= MinPositionals(formal_pattern)
        /\ \E f \in [1..Len(Positionals) -> PositionalNames] :
              \A n \in PositionalNames :
                  CASE result[n].t = "list" -> result[n].l = AssignedTo(f, n)
                    [] result[n].t = "str" -> AssignedTo(f, n) = <<result[n].s>>
                    [] result[n].t = "True" -> AssignedTo(f, n) = <<n>>
                    [] OTHER -> AssignedTo(f, n) = <<>>

\* ---------------------------------------------------------------- SpecParse

\* The longest usage of SpecParse, in tokens after the program name.
MaxUsage == 3

UsageTokens == {"(", ")", "[", "]", "|", "a", "<x>", "-o"}

UsageDocs ==
    {"usage: prog " \o join(ts, " ") \o "\n\n-o FILE  output file" :
        ts \in Seqs(UsageTokens, MaxUsage)}

\* docopt() has lexed an empty argv and is about to parse the usage.
InitParse ==
    /\ doc \in UsageDocs /\ argv = <<>>
    /\ pc = "parse_pattern"
    /\ pot_options = parse_doc_options(doc)
    /\ tokens = <<>> /\ parsed = <<>> /\ exc = NoExc
    /\ formal_pattern = NoNode /\ pot_arguments = <<>>
    /\ left = <<>> /\ collected = <<>> /\ heap = <<>> /\ matched = FALSE
    /\ l_ = l_None /\ times = 0 /\ ncalls = 0
    /\ result = <<>> /\ prev = NoPrev

NextParse == ParsePattern \/ Fix

SpecParse == InitParse /\ [][NextParse]_vars

\* The brackets of the usage section, in order.
Brackets ==
    SelectSeq([i \in 1..Len(printable_usage(doc)) |-> Char(printable_usage(doc), i)],
              LAMBDA c : c \in {"(", ")", "[", "]"})

RECURSIVE Balanced(_, _)
\* The brackets bs close the open brackets of `stack` (innermost last) and
\* are then properly nested.
Balanced(bs, stack) ==
    IF bs = <<>> THEN stack = <<>>
    ELSE IF bs[1] \in {"(", "["} THEN Balanced(Tail(bs), Append(stack, bs[1]))
    ELSE /\ stack # <<>>
         /\ stack[Len(stack)] = (IF bs[1] = ")" THEN "(" ELSE "[")
         /\ Balanced(Tail(bs), SubSeq(stack, 1, Len(stack) - 1))

\* C6 (as stated): a usage whose brackets are unbalanced (a bracket never
\* closed, a closer without an opener, a closer of the other kind) makes
\* parse_pattern raise DocoptError; no tree is built and nothing else is raised.
C6_UnbalancedIsDocoptError ==
    (prev.op = "parse_pattern" /\ ~Balanced(Brackets, <<>>)) =>
        /\ pc = "raised"
        /\ exc.type = "DocoptError"
        /\ formal_pattern = NoNode

\* ---------------------------------------------------------------- SpecMatch

\* The longest `left` SpecMatch starts from, and the most match calls it
\* makes on one state.
MaxLeft == 3
MaxCalls == 2

\* The leaves parse_args makes of the tokens 1, c, -a, -b.
Leaves ==
    {Argument("", Str("1")), Argument("", Str("c")),
     Option("-a", "", 0, True), Option("-b", "", 0, True)}

\* Pattern nodes as parse_pattern and fix() build them: <x> accumulates, and
\* a flag of the usage is the copy of its descriptor that parse_shorts gave
\* the value True.
Px == Argument("<x>", List(<<>>))
Py == Argument("<y>", None)
Pc == Command("c", False)
Pa == Option("-a", "", 0, True)
Pb == Option("-b", "", 0, True)

Patterns ==
    {Px, Py, Pc, Pa, Pb, AnyOptions,
     Required(<<Px, Pa>>),
     Optional(<<Required(<<Px, Pa>>)>>),
     Either(<<Pa, Required(<<Pa, Pb>>)>>),
     Either(<<Px, Py>>),
     Either(<<Required(<<Px, Pa>>), Required(<<Px, Pb>>)>>),
     OneOrMore(<<Px>>),
     OneOrMore(<<Optional(<<Pa>>)>>),
     OneOrMore(<<Required(<<Px, Optional(<<Pa>>)>>)>>)}

InitMatch ==
    /\ doc = "" /\ argv = <<>>
    /\ pc = "idle"
    /\ pot_options = <<>> /\ tokens = <<>> /\ parsed = <<>> /\ exc = NoExc
    /\ formal_pattern = NoNode /\ pot_arguments = <<>>
    /\ left \in Seqs(Leaves, MaxLeft)
    /\ collected = <<>> /\ heap = <<>> /\ matched = FALSE
    /\ l_ = l_None /\ times = 0 /\ ncalls = 0
    /\ result = <<>> /\ prev = NoPrev

\* What a call is applied to: the pattern, the state before the last step and
\* the state the call was entered with.
Entered(op, p) ==
    [op |-> op, pat |-> p, left |-> left, collected |-> collected, heap |-> heap,
     in_left |-> left, in_collected |-> collected, in_heap |-> heap]

\* p.match(left, collected) of a node other than OneOrMore, as one step.
Call(p) ==
    /\ pc = "idle" /\ ncalls < MaxCalls
    /\ p.type # "OneOrMore"
    /\ \E r \in {match(p, left, collected, heap)} :
          /\ exc' = r.exc /\ matched' = r.m
          /\ left' = r.left /\ collected' = r.collected /\ heap' = r.heap
          /\ pc' = IF r.exc = NoExc THEN "idle" ELSE "raised"
    /\ prev' = Entered("match", p)
    /\ ncalls' = ncalls + 1
    /\ UNCHANGED <<doc, argv, lexVars, treeVars, l_, times, result>>

\* OneOrMore.match is entered: the assert, the copies l and c (held in `left`
\* and `collected`), l_ = None, matched = True, times = 0.
OneOrMoreEnter(p) ==
    /\ pc = "idle" /\ ncalls < MaxCalls
    /\ p.type = "OneOrMore"
    /\ IF Len(p.children) # 1
       THEN exc' = AssertionError /\ pc' = "raised" /\ UNCHANGED <<matched, l_, times>>
       ELSE exc' = exc /\ pc' = "while" /\ matched' = TRUE /\ l_' = l_None /\ times' = 0
    /\ prev' = Entered("enter", p)
    /\ UNCHANGED <<doc, argv, lexVars, treeVars, left, collected, heap, ncalls, result>>

\* One iteration of `while matched`: the child is applied, times is counted,
\* and `if l_ == l: break`, else `l_ = copy(l)`.
OneOrMoreIterate ==
    /\ pc = "while" /\ matched
    /\ \E r \in {match(prev.pat.children[1], left, collected, heap)} :
          /\ exc' = r.exc /\ matched' = r.m
          /\ left' = r.left /\ collected' = r.collected /\ heap' = r.heap
          /\ times' = times + (IF r.m THEN 1 ELSE 0)
          /\ IF r.exc # NoExc THEN pc' = "raised" /\ l_' = l_
             ELSE IF OneOrMore_break(l_.is_None, l_.list, r.left)
             THEN pc' = "after_while" /\ l_' = l_
             ELSE pc' = "while" /\ l_' = [is_None |-> FALSE, list |-> r.left]
    /\ prev' = [prev EXCEPT !.op = "iterate", !.left = left,
                            !.collected = collected, !.heap = heap]
    /\ UNCHANGED <<doc, argv, lexVars, treeVars, ncalls, result>>

\* The loop is left (by the break or because `matched` is false):
\* `if times >= 1: return True, l, c`, else `return False, left, collected`.
OneOrMoreReturn ==
    /\ pc = "after_while" \/ (pc = "while" /\ ~matched)
    /\ IF OneOrMore_succeeds(times)
       THEN matched' = TRUE /\ UNCHANGED <<left, collected>>
       ELSE matched' = FALSE /\ left' = prev.in_left /\ collected' = prev.in_collected
    /\ pc' = "idle"
    /\ l_' = l_None /\ times' = 0
    /\ ncalls' = ncalls + 1
    /\ prev' = [prev EXCEPT !.op = "match", !.left = prev.in_left,
                            !.collected = prev.in_collected, !.heap = prev.in_heap]
    /\ UNCHANGED <<doc, argv, lexVars, treeVars, exc, heap, result>>

NextMatch ==
    \/ \E p \in Patterns : Call(p)
    \/ \E p \in Patterns : OneOrMoreEnter(p)
    \/ OneOrMoreIterate
    \/ OneOrMoreReturn

\* A call that was entered keeps running.
SpecMatch ==
    /\ InitMatch /\ [][NextMatch]_vars
    /\ WF_vars(OneOrMoreIterate) /\ WF_vars(OneOrMoreReturn)

\* ---------------------------------------------------------------- the matcher's contracts

\* A match call of a node of the given class has returned.
Returned(type) == prev.op = "match" /\ exc = NoExc /\ prev.pat.type = type

\* The leaves of a list as objects: class, names and immediate value, whatever
\* the address and the content of a list value.
Objects(list) == [k \in 1..Len(list) |-> [list[k] EXCEPT !.ref = 0]]

\* list without its element k.
Without(list, k) == SubSeq(list, 1, k - 1) \o SubSeq(list, k + 1, Len(list))

\* The outcome of child i of the Either that returned, on the inputs of the call.
ChildOutcome(i) ==
    match(prev.pat.children[i], prev.in_left, prev.in_collected, prev.in_heap)

Succeeding == {i \in 1..Len(prev.pat.children) : ChildOutcome(i).m}

\* The first of the succeeding children whose residual left is shortest.
Chosen ==
    CHOOSE k \in Succeeding :
        /\ \A j \in Succeeding : Len(ChildOutcome(k).left) <= Len(ChildOutcome(j).left)
        /\ \A j \in Succeeding :
              j < k => Len(ChildOutcome(j).left) > Len(ChildOutcome(k).left)

\* C3 (as stated): Either.match fails iff no child matches; otherwise it
\* returns the outcome of exactly one child, left and collected (the list
\* values of the accumulating Arguments included) being what that child gives
\* on the inputs of the call: the first declared among the succeeding
\* children whose residual left is shortest; (-a | -a -b) on -a -b returns the
\* second branch's outcome, with nothing left.
C3_EitherShortestResidue ==
    Returned("Either") =>
        /\ matched <=> Succeeding # {}
        /\ Succeeding # {} =>
              /\ left = ChildOutcome(Chosen).left
              /\ deref(collected, heap) =
                    deref(ChildOutcome(Chosen).collected, ChildOutcome(Chosen).heap)
        /\ (prev.pat = Either(<<Pa, Required(<<Pa, Pb>>)>>)
              /\ Objects(prev.in_left) = <<Option("-a", "", 0, True), Option("-b", "", 0, True)>>)
            => matched /\ left = <<>> /\ Chosen = 2

\* C7 (as stated): when match reports failure, the left and collected returned
\* are the inputs, and the leaves of the caller's collected, the list values
\* of the accumulating Arguments included, are what they were before the call.
C7_FailureLeavesNothing ==
    (prev.op = "match" /\ exc = NoExc /\ ~matched) =>
        /\ left = prev.in_left
        /\ collected = prev.in_collected
        /\ deref(prev.in_collected, heap) = deref(prev.in_collected, prev.in_heap)

\* The leaves of the input left that Option.match compares equal to the pattern.
SameOption == {k \in 1..Len(prev.in_left) :
                 /\ prev.in_left[k].type = "Option"
                 /\ prev.in_left[k].short = prev.pat.short
                 /\ prev.in_left[k].long = prev.pat.long}

\* C8 (as stated): Option.match removes from left only the first leaf whose
\* (short, long) equals the pattern's, leaves every other leaf in place, later
\* occurrences of the same option included, and succeeds iff a leaf was removed.
C8_RemovesFirstOnly ==
    Returned("Option") =>
        /\ matched <=> SameOption # {}
        /\ left = IF SameOption = {} THEN prev.in_left
                  ELSE Without(prev.in_left, Min(SameOption))
        /\ collected = prev.in_collected

\* The positional leaves of the input left, as positions.
ArgumentsAt == {k \in 1..Len(prev.in_left) : prev.in_left[k].type = "Argument"}

\* C9 (as stated): Command.match succeeds iff left contains an Argument leaf
\* whose value is the command name; it then removes the first such leaf, also
\* when other positionals precede it, keeps the others in order and appends
\* Command(name, true) to collected; otherwise left and collected are unchanged.
C9_AsStated ==
    Returned("Command") =>
        LET named == {k \in ArgumentsAt : prev.in_left[k].value = Str(prev.pat.name)}
        IN  /\ matched <=> named # {}
            /\ named # {} =>
                  /\ left = Without(prev.in_left, Min(named))
                  /\ collected = prev.in_collected \o <<Command(prev.pat.name, True)>>
            /\ named = {} => left = prev.in_left /\ collected = prev.in_collected

\* C9 (amended): Command.match succeeds iff the first Argument leaf of left
\* (options may precede it, positionals may not) has the command name as its
\* value; it then removes that leaf, keeps the others in order and appends
\* Command(name, true) to collected; otherwise left and collected are unchanged.
C9_FirstPositional ==
    Returned("Command") =>
        LET ok == /\ ArgumentsAt # {}
                  /\ prev.in_left[Min(ArgumentsAt)].value = Str(prev.pat.name)
        IN  /\ matched <=> ok
            /\ ok =>
                  /\ left = Without(prev.in_left, Min(ArgumentsAt))
                  /\ collected = prev.in_collected \o <<Command(prev.pat.name, True)>>
            /\ ~ok => left = prev.in_left /\ collected = prev.in_collected

\* A Command matched its name behind an option, on a left of two leaves.
C9_Witness ==
    /\ Returned("Command") /\ matched
    /\ Len(prev.in_left) = 2 /\ prev.in_left[1].type = "Option"
    /\ left = <<prev.in_left[1]>>
    /\ collected[Len(collected)] = Command("c", True)

RECURSIVE IsSubseq(_, _)
\* a is b with some elements left out.
IsSubseq(a, b) ==
    IF a = <<>> THEN TRUE
    ELSE IF b = <<>> THEN FALSE
    ELSE IF a[1] = b[1] THEN IsSubseq(Tail(a), Tail(b))
    ELSE IsSubseq(a, Tail(b))

\* The OneOrMore loop is about to apply its child again.
Reapplies == pc = "while" /\ matched /\ times >= 1

\* C10 (as stated, the loop): the OneOrMore loop re-applies its child only
\* while the iteration before matched and changed left.
C10_AsStated ==
    Reapplies => left # prev.left

\* What holds of the loop and of every call, in every state.
C10_Bounded ==
    \* the second application follows any first one that matched; every later
    \* one follows an iteration that matched and made left shorter
    /\ (Reapplies /\ times >= 2) => Len(left) < Len(prev.left)
    \* so the applications are bounded by the leaves consumed
    /\ pc \in {"while", "after_while"} =>
          /\ times <= Len(prev.in_left) - Len(left) + 2
          /\ (matched /\ pc = "while") => times <= Len(prev.in_left) - Len(left) + 1
          /\ IsSubseq(left, prev.in_left)
    \* the left returned by any match is a sub-sequence of the left passed in
    /\ (prev.op = "match" /\ exc = NoExc) => IsSubseq(left, prev.in_left)
    \* OneOrMore succeeds iff its child matched at least once, that is, on
    \* the inputs of the call, and it is the loop that nested nodes run
    /\ Returned("OneOrMore") =>
          /\ matched <=> match(prev.pat.children[1], prev.in_left, prev.in_collected,
                                prev.in_heap).m
          /\ MResult(NoExc, matched, left, collected, heap) =
                match(prev.pat, prev.in_left, prev.in_collected, prev.in_heap)

\* C10 (amended): match terminates.  The OneOrMore loop applies its child a
\* second time whenever the first application matched, and again after that
\* only while the iteration before matched and made left shorter, so it is
\* left after at most len(left) + 2 applications; the left returned by any
\* match is a sub-sequence of the left passed in; OneOrMore succeeds iff its
\* child matched at least once, also when the child consumed nothing.
C10_Terminates ==
    /\ []C10_Bounded
    /\ (pc = "while") ~> (pc = "idle" \/ pc = "raised")

\* OneOrMore([-a]) is about to apply its child again after an application
\* that matched and consumed nothing.
C10_Witness ==
    /\ Reapplies /\ times = 1 /\ left = prev.left /\ left # <<>>
    /\ prev.pat = OneOrMore(<<Optional(<<Pa>>)>>)

====
